---- MODULE Spec2Model ----
(***************************************************************************)
(* chktiles: a scanner that walks a tree of SVG tiles, runs six checks on  *)
(* each parsed tile and compares the tile against every .svg file of a     *)
(* reference tree.  src/chktiles.go holds two variants of the program: the *)
(* xmlquery variant (lines 1-350) and the schema-bound encoding/xml        *)
(* variant (lines 352-636).  Both are modelled; the variable "variant"     *)
(* says which one runs.                                                    *)
(*                                                                         *)
(* Strings whose characters matter (dimension strings, keywords, digests)  *)
(* are sequences of one-character strings.                                 *)
(***************************************************************************)
EXTENDS Integers, Sequences, FiniteSets, TLC

VARIABLES variant, verboseFlag, spellerOk, checkTree, dupTree,
          pc, idx, dupIdx, cand, out, calls

vars == <<variant, verboseFlag, spellerOk, checkTree, dupTree,
          pc, idx, dupIdx, cand, out, calls>>

(***************************************************************************)
(* Bounds of the model.                                                    *)
(***************************************************************************)
MaxCheckEntries == 2
MaxRefEntries == 2
MaxSizeLen == 4
MaxUnitLen == 3

(***************************************************************************)
(* Characters and digit sequences.                                         *)
(***************************************************************************)
DigitChars == <<"0", "1", "2", "3", "4", "5", "6", "7", "8", "9">>

Digits == {DigitChars[i] : i \in 1..10}

DigitVal(c) == (CHOOSE i \in 1..10 : DigitChars[i] = c) - 1

SeqsUpTo(S, n) == UNION {[1..k -> S] : k \in 0..n}

Repeat(c, n) == [i \in 1..n |-> c]

\* strings.HasSuffix
HasSuffix(s, suf) ==
    /\ Len(s) >= Len(suf)
    /\ SubSeq(s, Len(s) - Len(suf) + 1, Len(s)) = suf

RECURSIVE DigitsLessFrom(_, _, _)
\* a < b for two digit sequences read position by position from i, a missing
\* digit counting as 0 (equal-length integer parts, or fractions).
DigitsLessFrom(a, b, i) ==
    IF i > Len(a) /\ i > Len(b) THEN FALSE
    ELSE LET x == IF i > Len(a) THEN 0 ELSE a[i]
             y == IF i > Len(b) THEN 0 ELSE b[i]
         IN  IF x < y THEN TRUE
             ELSE IF x > y THEN FALSE
             ELSE DigitsLessFrom(a, b, i + 1)

RECURSIVE StripLeadingZeros(_)
StripLeadingZeros(d) ==
    IF d # <<>> /\ Head(d) = 0 THEN StripLeadingZeros(Tail(d)) ELSE d

RECURSIVE StripTrailingZeros(_)
StripTrailingZeros(d) ==
    IF d # <<>> /\ d[Len(d)] = 0
    THEN StripTrailingZeros(SubSeq(d, 1, Len(d) - 1)) ELSE d

RECURSIVE NatOf(_)
\* the value of a short digit sequence
NatOf(d) == IF d = <<>> THEN 0 ELSE 10 * NatOf(SubSeq(d, 1, Len(d) - 1)) + d[Len(d)]

(***************************************************************************)
(* float64 as strconv.ParseFloat produces it from a string of digits and   *)
(* dots.  A finite value is kept as its decimal expansion (ip: the integer *)
(* part without leading zeros, fp: the fraction without trailing zeros);   *)
(* the rounding to the nearest float64 matters only where the value is     *)
(* compared (Float64Less).  +Inf is the value ParseFloat returns, with     *)
(* ErrRange, for a well-formed number at or above 2^1024 - 2^970.          *)
(***************************************************************************)
\* the decimal digits of 2^1024 - 2^970, half an ulp above math.MaxFloat64
Float64Overflow == <<
    1, 7, 9, 7, 6, 9, 3, 1, 3, 4, 8, 6, 2, 3, 1, 5, 8, 0, 7, 9, 3, 7, 2, 8, 9, 7, 1, 4, 0, 5, 3, 0, 3, 4, 1, 5, 0, 7, 9, 9,
    3, 4, 1, 3, 2, 7, 1, 0, 0, 3, 7, 8, 2, 6, 9, 3, 6, 1, 7, 3, 7, 7, 8, 9, 8, 0, 4, 4, 4, 9, 6, 8, 2, 9, 2, 7, 6, 4, 7, 5,
    0, 9, 4, 6, 6, 4, 9, 0, 1, 7, 9, 7, 7, 5, 8, 7, 2, 0, 7, 0, 9, 6, 3, 3, 0, 2, 8, 6, 4, 1, 6, 6, 9, 2, 8, 8, 7, 9, 1, 0,
    9, 4, 6, 5, 5, 5, 5, 4, 7, 8, 5, 1, 9, 4, 0, 4, 0, 2, 6, 3, 0, 6, 5, 7, 4, 8, 8, 6, 7, 1, 5, 0, 5, 8, 2, 0, 6, 8, 1, 9,
    0, 8, 9, 0, 2, 0, 0, 0, 7, 0, 8, 3, 8, 3, 6, 7, 6, 2, 7, 3, 8, 5, 4, 8, 4, 5, 8, 1, 7, 7, 1, 1, 5, 3, 1, 7, 6, 4, 4, 7,
    5, 7, 3, 0, 2, 7, 0, 0, 6, 9, 8, 5, 5, 5, 7, 1, 3, 6, 6, 9, 5, 9, 6, 2, 2, 8, 4, 2, 9, 1, 4, 8, 1, 9, 8, 6, 0, 8, 3, 4,
    9, 3, 6, 4, 7, 5, 2, 9, 2, 7, 1, 9, 0, 7, 4, 1, 6, 8, 4, 4, 4, 3, 6, 5, 5, 1, 0, 7, 0, 4, 3, 4, 2, 7, 1, 1, 5, 5, 9, 6,
    9, 9, 5, 0, 8, 0, 9, 3, 0, 4, 2, 8, 8, 0, 1, 7, 7, 9, 0, 4, 1, 7, 4, 4, 9, 7, 7, 9, 2 >>

\* the fraction digits of 80 - 2^-47, half an ulp below 80
HalfUlpBelowMin == << 9, 9, 9, 9, 9, 9, 9, 9, 9, 9, 9, 9, 9, 9, 2, 8, 9, 4, 5, 7, 2, 6, 4, 2, 3, 9, 8, 9, 9, 8, 1, 4, 1, 2, 8, 8, 7, 5, 7, 3, 2, 4, 2, 1, 8, 7, 5 >>

FloatZero == [kind |-> "fin", ip |-> <<>>, fp |-> <<>>]

FloatInf == [kind |-> "inf", ip |-> <<>>, fp |-> <<>>]

DotCount(s) == Cardinality({i \in 1..Len(s) : s[i] = "."})

DotPos(s) == IF DotCount(s) = 0 THEN Len(s) + 1 ELSE CHOOSE i \in 1..Len(s) : s[i] = "."

\* The numbers ParseFloat accepts among strings of digits and dots: at most one
\* dot and at least one digit.
WellFormedNumber(s) ==
    /\ \A i \in 1..Len(s) : s[i] \in Digits \cup {"."}
    /\ DotCount(s) <= 1
    /\ Len(s) - DotCount(s) >= 1

IntDigits(s) == StripLeadingZeros([i \in 1..(DotPos(s) - 1) |-> DigitVal(s[i])])

FracDigits(s) == StripTrailingZeros([i \in 1..(Len(s) - DotPos(s)) |-> DigitVal(s[DotPos(s) + i])])

Overflows(ip) ==
    \/ Len(ip) > Len(Float64Overflow)
    \/ Len(ip) = Len(Float64Overflow) /\ ~DigitsLessFrom(ip, Float64Overflow, 1)

\* strconv.ParseFloat(s, 64): the value and the error
ParseFloat(s) ==
    IF ~WellFormedNumber(s) THEN [f |-> FloatZero, err |-> "ErrSyntax"]
    ELSE IF Overflows(IntDigits(s)) THEN [f |-> FloatInf, err |-> "ErrRange"]
    ELSE [f |-> [kind |-> "fin", ip |-> IntDigits(s), fp |-> FracDigits(s)], err |-> "nil"]

\* f < n for a float64 f and the constant n = 80: the decimal f stands for was
\* rounded to the nearest float64 (ties to even), so it compares below 80 exactly
\* when it lies below 80 - 2^-47.
Float64Less(f, n) ==
    IF f.kind = "inf" THEN FALSE
    ELSE IF Len(f.ip) > 2 THEN FALSE
    ELSE IF NatOf(f.ip) >= n THEN FALSE
    ELSE IF NatOf(f.ip) < n - 1 THEN TRUE
    ELSE DigitsLessFrom(f.fp, HalfUlpBelowMin, 1)

(***************************************************************************)
(* The unit converter.                                                     *)
(***************************************************************************)
Dec(ip, fp) == [kind |-> "fin", ip |-> ip, fp |-> fp]

\* 96
pxPerIn == Dec(<<9, 6>>, <<>>)

\* 0.039370787 * pxPerIn = 3.779595552
pxPerMm == Dec(<<3>>, <<7, 7, 9, 5, 9, 5, 5, 5, 2>>)

\* 0.0138888889 * pxPerIn = 1.3333333344
pxPerPt == Dec(<<1>>, <<3, 3, 3, 3, 3, 3, 3, 3, 4, 4>>)

\* 0.1666666667 * pxPerIn = 16.0000000032
pxPerPc == Dec(<<1, 6>>, <<0, 0, 0, 0, 0, 0, 0, 0, 3, 2>>)

\* pxPerIn * 12 = 1152
pxPerFt == Dec(<<1, 1, 5, 2>>, <<>>)

\* 0.3937007874 * pxPerIn = 37.7952755904
pxPerCm == Dec(<<3, 7>>, <<7, 9, 5, 2, 7, 5, 5, 9, 0, 4>>)

\* 0.0254 * pxPerIn = 2.4384
pxPerM == Dec(<<2>>, <<4, 3, 8, 4>>)

\* the float64 1.0
One == Dec(<<1>>, <<>>)

minWidth == 80

minHeight == 80

\* regexp [^0-9\.] replaced by "": only digits and dots stay
StripNonNumeric(s) == SelectSeq(s, LAMBDA c : c \in Digits \cup {"."})

\* toFloat without the regexp: the unit suffix reaches ParseFloat
toFloatNoStrip(s) ==
    LET r == ParseFloat(s)
    IN  [f |-> r.f, failed |-> r.err # "nil"]

\* toFloat: the value returned and whether the conversion error line is printed
toFloat(s) ==
    LET r == ParseFloat(StripNonNumeric(s))
    IN  [f |-> r.f, failed |-> r.err # "nil"]

\* getUnitConversion testing the suffix m before mm and cm
getUnitConversionMFirst(value) ==
    IF HasSuffix(value, <<"i", "n">>) THEN pxPerIn
    ELSE IF HasSuffix(value, <<"m">>) THEN pxPerM
    ELSE IF HasSuffix(value, <<"m", "m">>) THEN pxPerMm
    ELSE IF HasSuffix(value, <<"p", "t">>) THEN pxPerPt
    ELSE IF HasSuffix(value, <<"p", "c">>) THEN pxPerPc
    ELSE IF HasSuffix(value, <<"f", "t">>) THEN pxPerFt
    ELSE IF HasSuffix(value, <<"c", "m">>) THEN pxPerCm
    ELSE One

getUnitConversion(value) ==
    IF HasSuffix(value, <<"i", "n">>) THEN pxPerIn
    ELSE IF HasSuffix(value, <<"m", "m">>) THEN pxPerMm
    ELSE IF HasSuffix(value, <<"p", "t">>) THEN pxPerPt
    ELSE IF HasSuffix(value, <<"p", "c">>) THEN pxPerPc
    ELSE IF HasSuffix(value, <<"f", "t">>) THEN pxPerFt
    ELSE IF HasSuffix(value, <<"c", "m">>) THEN pxPerCm
    ELSE IF HasSuffix(value, <<"m">>) THEN pxPerM
    ELSE One

(***************************************************************************)
(* Files, paths and digests.                                               *)
(***************************************************************************)
\* A path is a directory and a file name made of a stem and an extension.
Base(path) == [stem |-> path.stem, ext |-> path.ext]

Ext(path) == path.ext

HexChars == <<"0", "1", "2", "3", "4", "5", "6", "7",
              "8", "9", "a", "b", "c", "d", "e", "f">>

RECURSIVE HexEncode(_)
\* hex.EncodeToString: two characters for each byte
HexEncode(bytes) ==
    IF bytes = <<>> THEN <<>>
    ELSE <<HexChars[(Head(bytes) \div 16) + 1], HexChars[(Head(bytes) % 16) + 1]>>
         \o HexEncode(Tail(bytes))

RECURSIVE BitsValue(_)
BitsValue(c) == IF c = <<>> THEN 0 ELSE 2 * BitsValue(SubSeq(c, 1, Len(c) - 1)) + c[Len(c)]

\* md5 of a content: a digest of fixed width, different for different contents
\* of the model (no collision among them), here two bytes instead of sixteen.
Md5Sum(content) == <<Len(content), BitsValue(content)>>

\* makeHash: "" when the file cannot be opened or read
makeHash(file) ==
    IF ~file.openOk THEN [hash |-> <<>>, failed |-> "open"]
    ELSE IF ~file.readOk THEN [hash |-> <<>>, failed |-> "read"]
    ELSE [hash |-> HexEncode(Md5Sum(file.content)), failed |-> "no"]

\* getFileSize: 0 when the file cannot be stat'ed
getFileSize(file) ==
    IF ~file.statOk THEN [size |-> 0, failed |-> TRUE]
    ELSE [size |-> Len(file.content), failed |-> FALSE]

(***************************************************************************)
(* Spelling.                                                               *)
(***************************************************************************)
WordOk == <<"o", "k">>

WordBad == <<"z", "q">>

\* the words aspell's en_US dictionary accepts, among the words of the model
Dictionary == {WordOk}

\* speller.Check
SpellerCheck(word) == word \in Dictionary

RECURSIVE Split(_, _)
\* strings.Split(s, sep) for a one-character separator
Split(s, sep) ==
    IF \A i \in 1..Len(s) : s[i] # sep THEN <<s>>
    ELSE LET p == CHOOSE i \in 1..Len(s) : s[i] = sep /\ \A j \in 1..(i - 1) : s[j] # sep
         IN  <<SubSeq(s, 1, p - 1)>> \o Split(SubSeq(s, p + 1, Len(s)), sep)

\* strings.Replace(word, "/", "", -1)
RemoveSlashes(word) == SelectSeq(word, LAMBDA c : c # "/")

RECURSIVE Flatten(_)
Flatten(ss) == IF ss = <<>> THEN <<>> ELSE Head(ss) \o Flatten(Tail(ss))

\* the tokens of the non-empty strings of texts, in order
Tokens(texts) ==
    Flatten([i \in 1..Len(texts) |->
                IF texts[i] # <<>> THEN Split(texts[i], " ") ELSE <<>>])

\* checkKeywordSpelling's loop: the keywords' words the speller rejects
MisspelledKeywords(keywords) ==
    SelectSeq(Tokens(keywords), LAMBDA w : ~SpellerCheck(w))

\* checkTspanSpelling's loop: a word is checked with its slashes removed
MisspelledTspans(tspans) ==
    SelectSeq(Tokens(tspans), LAMBDA w : ~SpellerCheck(RemoveSlashes(w)))

(***************************************************************************)
(* Diagnostics.  src is the path or the function name the line starts      *)
(* with; file and ref are the positions of the tile and of the reference   *)
(* file the line is about (0: none).  msg is the wording of the xmlquery   *)
(* variant; the schema-bound variant prints the same lines with another    *)
(* punctuation and letter case.                                            *)
(***************************************************************************)
Diag(sev, msg, file, ref, arg) ==
    [sev |-> sev, msg |-> msg, file |-> file, ref |-> ref, arg |-> arg]

\* a call of one of checkTiles' functions for a tile
Call(file, fn) == [file |-> file, fn |-> fn, ref |-> 0]

\* the comparisons of checkDuplicates' walk function for a tile and a reference file
Compare(file, ref) == [file |-> file, fn |-> "compare", ref |-> ref]

When(cond, d) == IF cond THEN <<d>> ELSE <<>>

(***************************************************************************)
(* The six checks, as the lines each prints for a tile.  Panics is the     *)
(* nil dereference n.SelectAttr of the xmlquery variant when               *)
(* xmlquery.FindOne(node, "//svg") finds no svg element.                   *)
(***************************************************************************)
Panics(v, doc) == v = "xmlquery" /\ ~doc.hasSvg

\* checkKeywords taking keywords without text for missing ones
checkKeywordsNoText(file, doc) ==
    When(\A k \in DOMAIN doc.keywords : doc.keywords[k] = <<>>,
         Diag("ERROR", "Keywords missing", file, 0, <<>>))

checkKeywords(file, doc) ==
    When(Len(doc.keywords) = 0, Diag("ERROR", "Keywords missing", file, 0, <<>>))

checkSize(file, doc) ==
    LET w == toFloat(doc.width)
        h == toFloat(doc.height)
    IN  When(w.failed, Diag("ERROR", "toFloat unable to convert", file, 0, doc.width))
        \o When(h.failed, Diag("ERROR", "toFloat unable to convert", file, 0, doc.height))
        \o When(Float64Less(w.f, minWidth),
                Diag("ERROR", "Width is too small", file, 0, doc.width))
        \o When(Float64Less(h.f, minHeight),
                Diag("ERROR", "Height is too small", file, 0, doc.height))

checkUnits(file, doc) ==
    When(getUnitConversion(doc.width) # One,
         Diag("WARNING", "Width units are not px", file, 0, doc.width))
    \o When(getUnitConversion(doc.height) # One,
            Diag("WARNING", "Height units are not px", file, 0, doc.height))

\* xmlquery variant: the node is looked up; schema variant: the decoded text
checkIdentifier(v, file, doc) ==
    IF v = "xmlquery"
    THEN When(~doc.identifier.present, Diag("ERROR", "Identifier missing", file, 0, <<>>))
    ELSE When(doc.identifier.text = <<>>, Diag("ERROR", "Identifier missing", file, 0, <<>>))

checkKeywordSpelling(ok, file, doc) ==
    IF ~ok THEN <<Diag("ERROR", "checkKeywordSpelling speller", 0, 0, <<>>)>>
    ELSE IF Len(doc.keywords) = 0 THEN <<>>
    ELSE When(Len(MisspelledKeywords(doc.keywords)) > 0,
              Diag("ERROR", "Keywords misspelled", file, 0, MisspelledKeywords(doc.keywords)))

\* xmlquery variant: the spelling of the tspans; schema variant: a count line
checkTspanSpelling(v, ok, file, doc) ==
    IF v = "schema" THEN <<Diag("INFO", "texts", file, 0, <<Len(doc.tspans)>>)>>
    ELSE IF ~ok THEN <<Diag("ERROR", "checkKeywordSpelling speller", 0, 0, <<>>)>>
    ELSE IF Len(doc.tspans) = 0 THEN <<>>
    ELSE When(Len(MisspelledTspans(doc.tspans)) > 0,
              Diag("ERROR", "Text misspelled", file, 0, MisspelledTspans(doc.tspans)))

(***************************************************************************)
(* The walk of checkTiles.  checkTree and dupTree are the entries of the   *)
(* two trees in filepath.Walk's order; pc is the call the walk function of *)
(* checkTiles is about to make for entry idx.                              *)
(***************************************************************************)
Entry == checkTree[idx]

\* the walk function returned nil for entry idx: filepath.Walk goes on
Advance == IF idx < Len(checkTree) THEN [pc |-> "walk", idx |-> idx + 1]
           ELSE [pc |-> "done", idx |-> idx]

WalkAbort == Diag("ERROR", "checkTiles unable to walk directory", 0, 0, <<>>)

\* checkTiles' walk function up to its first check, and the end of checkTiles
\* when the function returns an error
WalkFn ==
    /\ pc = "walk"
    /\ IF Entry.walkErr
       THEN /\ out' = out \o <<Diag("ERROR", "checkTiles unable to access path", idx, 0, <<>>),
                              WalkAbort>>
            /\ pc' = "aborted"
            /\ idx' = idx
       ELSE IF Ext(Entry.path) # ".svg"
       THEN /\ out' = out
            /\ pc' = Advance.pc
            /\ idx' = Advance.idx
       ELSE IF ~Entry.openOk
       THEN /\ out' = out \o When(verboseFlag, Diag("INFO", "checkTiles", idx, 0, <<>>))
                          \o <<Diag("ERROR", "checkTiles unable to open", idx, 0, <<>>),
                               WalkAbort>>
            /\ pc' = "aborted"
            /\ idx' = idx
       ELSE IF ~Entry.parseOk
       THEN /\ out' = out \o When(verboseFlag, Diag("INFO", "checkTiles", idx, 0, <<>>))
                          \o <<Diag("ERROR", "parseSvg could not parse", 0, 0, <<>>),
                               WalkAbort>>
            /\ pc' = "aborted"
            /\ idx' = idx
       ELSE IF verboseFlag /\ Panics(variant, Entry.doc)
       THEN /\ out' = out \o <<Diag("INFO", "checkTiles", idx, 0, <<>>)>>
            /\ pc' = "panic"
            /\ idx' = idx
       ELSE /\ out' = out \o When(verboseFlag, Diag("INFO", "checkTiles", idx, 0, <<>>))
                          \o When(verboseFlag, Diag("INFO", "printSvg", idx, 0, <<>>))
            /\ pc' = "checkKeywords"
            /\ idx' = idx
    /\ UNCHANGED <<variant, verboseFlag, spellerOk, checkTree, dupTree, dupIdx, cand, calls>>

CheckKeywordsStep ==
    /\ pc = "checkKeywords"
    /\ calls' = Append(calls, Call(idx, "checkKeywords"))
    /\ out' = out \o checkKeywords(idx, Entry.doc)
    /\ pc' = "checkSize"
    /\ UNCHANGED <<variant, verboseFlag, spellerOk, checkTree, dupTree, idx, dupIdx, cand>>

CheckSizeStep ==
    /\ pc = "checkSize"
    /\ calls' = Append(calls, Call(idx, "checkSize"))
    /\ IF Panics(variant, Entry.doc)
       THEN /\ out' = out
            /\ pc' = "panic"
       ELSE /\ out' = out \o checkSize(idx, Entry.doc)
            /\ pc' = "checkUnits"
    /\ UNCHANGED <<variant, verboseFlag, spellerOk, checkTree, dupTree, idx, dupIdx, cand>>

CheckUnitsStep ==
    /\ pc = "checkUnits"
    /\ calls' = Append(calls, Call(idx, "checkUnits"))
    /\ IF Panics(variant, Entry.doc)
       THEN /\ out' = out
            /\ pc' = "panic"
       ELSE /\ out' = out \o checkUnits(idx, Entry.doc)
            /\ pc' = "checkIdentifier"
    /\ UNCHANGED <<variant, verboseFlag, spellerOk, checkTree, dupTree, idx, dupIdx, cand>>

CheckIdentifierStep ==
    /\ pc = "checkIdentifier"
    /\ calls' = Append(calls, Call(idx, "checkIdentifier"))
    /\ out' = out \o checkIdentifier(variant, idx, Entry.doc)
    /\ pc' = "checkKeywordSpelling"
    /\ UNCHANGED <<variant, verboseFlag, spellerOk, checkTree, dupTree, idx, dupIdx, cand>>

CheckKeywordSpellingStep ==
    /\ pc = "checkKeywordSpelling"
    /\ calls' = Append(calls, Call(idx, "checkKeywordSpelling"))
    /\ out' = out \o checkKeywordSpelling(spellerOk, idx, Entry.doc)
    /\ pc' = "checkTspanSpelling"
    /\ UNCHANGED <<variant, verboseFlag, spellerOk, checkTree, dupTree, idx, dupIdx, cand>>

\* the last check; the schema variant's walk function returns nil after it
CheckTspanSpellingStep ==
    /\ pc = "checkTspanSpelling"
    /\ calls' = Append(calls, Call(idx, "checkTspanSpelling"))
    /\ out' = out \o checkTspanSpelling(variant, spellerOk, idx, Entry.doc)
    /\ IF variant = "xmlquery"
       THEN pc' = "checkDuplicates" /\ idx' = idx
       ELSE pc' = Advance.pc /\ idx' = Advance.idx
    /\ UNCHANGED <<variant, verboseFlag, spellerOk, checkTree, dupTree, dupIdx, cand>>

(***************************************************************************)
(* checkDuplicates.  The tile was opened and parsed a moment ago, but      *)
(* makeHash and getFileSize open and stat it again and either may fail.    *)
(***************************************************************************)
\* the candidate as makeHash and getFileSize find it
Candidate(statOk, openOk) ==
    [content |-> Entry.content, statOk |-> statOk, openOk |-> openOk, readOk |-> TRUE]

HashDiag(h, file, ref) ==
    When(h.failed = "open", Diag("ERROR", "makeHash unable to open", file, ref, <<>>))
    \o When(h.failed = "read", Diag("ERROR", "makeHash unable to create hash", file, ref, <<>>))

SizeDiag(z, file, ref) ==
    When(z.failed, Diag("ERROR", "getFileSize unable to get size", file, ref, <<>>))

\* lines 246-248, then filepath.Walk starts on dupDir
CheckDuplicatesStep ==
    /\ pc = "checkDuplicates"
    /\ calls' = Append(calls, Call(idx, "checkDuplicates"))
    /\ \E statOk \in BOOLEAN, openOk \in BOOLEAN :
          LET h == makeHash(Candidate(statOk, openOk))
              z == getFileSize(Candidate(statOk, openOk))
          IN  /\ cand' = [aHash |-> h.hash, aBasename |-> Base(Entry.path), aSize |-> z.size,
                          file |-> idx, hashed |-> h.failed = "no", sized |-> ~z.failed]
              /\ out' = out \o HashDiag(h, idx, 0) \o SizeDiag(z, idx, 0)
    /\ pc' = "dupWalk"
    /\ dupIdx' = 1
    /\ UNCHANGED <<variant, verboseFlag, spellerOk, checkTree, dupTree, idx>>

Ref == dupTree[dupIdx]

\* DupMatches with the three comparisons chained by else: the first match only
DupMatchesFirstOnly(c, file, r, ref) ==
    LET z == getFileSize(r)
        h == makeHash(r)
    IN  IF c.aBasename = Base(r.path)
        THEN <<Diag("WARNING", "duplicate file name", file, ref, <<>>)>>
        ELSE SizeDiag(z, 0, ref)
             \o (IF c.aSize = z.size
                 THEN <<Diag("WARNING", "duplicate file size", file, ref, <<>>)>>
                 ELSE HashDiag(h, 0, ref)
                      \o When(c.aHash = h.hash,
                              Diag("WARNING", "duplicate file hash", file, ref, <<>>)))

\* the lines the walk function of checkDuplicates prints for a reference .svg file
DupMatches(c, file, r, ref) ==
    LET z == getFileSize(r)
        h == makeHash(r)
    IN  When(c.aBasename = Base(r.path), Diag("WARNING", "duplicate file name", file, ref, <<>>))
        \o SizeDiag(z, 0, ref)
        \o When(c.aSize = z.size, Diag("WARNING", "duplicate file size", file, ref, <<>>))
        \o HashDiag(h, 0, ref)
        \o When(c.aHash = h.hash, Diag("WARNING", "duplicate file hash", file, ref, <<>>))

\* the walk function of checkDuplicates on one entry, and the return of
\* checkDuplicates when the walk ends
DupWalkFn ==
    /\ pc = "dupWalk"
    /\ IF Ref.walkErr
       THEN /\ out' = out \o <<Diag("ERROR", "checkDuplicates unable to access", idx, dupIdx, <<>>),
                              Diag("ERROR", "checkDuplicates unable to walk directory", idx, 0, <<>>)>>
            /\ pc' = Advance.pc
            /\ idx' = Advance.idx
            /\ dupIdx' = dupIdx
            /\ calls' = calls
       ELSE /\ out' = out \o (IF Ext(Ref.path) # ".svg" THEN <<>>
                              ELSE DupMatches(cand, idx, Ref, dupIdx))
            /\ calls' = calls \o (IF Ext(Ref.path) # ".svg" THEN <<>>
                                  ELSE <<Compare(idx, dupIdx)>>)
            /\ IF dupIdx < Len(dupTree)
               THEN pc' = pc /\ idx' = idx /\ dupIdx' = dupIdx + 1
               ELSE pc' = Advance.pc /\ idx' = Advance.idx /\ dupIdx' = dupIdx
    /\ UNCHANGED <<variant, verboseFlag, spellerOk, checkTree, dupTree, cand>>

Next ==
    \/ WalkFn
    \/ CheckKeywordsStep
    \/ CheckSizeStep
    \/ CheckUnitsStep
    \/ CheckIdentifierStep
    \/ CheckKeywordSpellingStep
    \/ CheckTspanSpellingStep
    \/ CheckDuplicatesStep
    \/ DupWalkFn

(***************************************************************************)
(* The trees a run starts from.                                            *)
(***************************************************************************)
Path(dir, stem, ext) == [dir |-> dir, stem |-> stem, ext |-> ext]

Identifier(present, text) == [present |-> present, text |-> text]

Doc(hasSvg, width, height, keywords, identifier, tspans) ==
    [hasSvg |-> hasSvg, width |-> width, height |-> height, keywords |-> keywords,
     identifier |-> identifier, tspans |-> tspans]

\* a dc:identifier element is absent, present without text, or present with a text
Identifiers == {Identifier(FALSE, <<>>), Identifier(TRUE, <<>>), Identifier(TRUE, <<"t", "1">>)}

\* well-formed XML with nothing the checks look for
BareDoc == Doc(FALSE, <<>>, <<>>, <<>>, Identifier(FALSE, <<>>), <<>>)

GoodDoc == Doc(TRUE, <<"1", "0", "0">>, <<"1", "0", "0">>, <<WordOk>>,
               Identifier(TRUE, <<"t", "1">>), <<<<"o", "/", "k">>>>)

PoorDoc == Doc(TRUE, <<"6", "0">>, <<"8", "0", "m", "m">>, <<WordBad \o <<" ">> \o WordOk>>,
               Identifier(TRUE, <<>>), <<WordBad>>)

CheckEntry(path, walkErr, openOk, parseOk, doc, content) ==
    [path |-> path, walkErr |-> walkErr, openOk |-> openOk, parseOk |-> parseOk,
     doc |-> doc, content |-> content]

RefEntry(path, walkErr, statOk, openOk, readOk, content) ==
    [path |-> path, walkErr |-> walkErr, statOk |-> statOk, openOk |-> openOk,
     readOk |-> readOk, content |-> content]

\* a tile the walk function opens and parses
Tile(path, doc, content) == CheckEntry(path, FALSE, TRUE, TRUE, doc, content)

CheckEntries ==
    {CheckEntry(Path("chk", "sub", ""), TRUE, FALSE, FALSE, BareDoc, <<>>),
     CheckEntry(Path("chk", "notes", ".txt"), FALSE, TRUE, FALSE, BareDoc, <<0>>),
     CheckEntry(Path("chk", "locked", ".svg"), FALSE, FALSE, FALSE, BareDoc, <<0>>),
     CheckEntry(Path("chk", "broken", ".svg"), FALSE, TRUE, FALSE, BareDoc, <<0>>)}
    \cup {Tile(Path("chk", "a", ".svg"), d, <<0>>) : d \in {GoodDoc, PoorDoc, BareDoc}}
    \cup {Tile(Path("chk", "b", ".svg"), d, <<1>>) : d \in {GoodDoc, PoorDoc, BareDoc}}

\* reference entries: an entry the walk cannot access, a file that is no .svg,
\* readable .svg files, an empty one, a dangling link (stat and open fail) and
\* one that opens but cannot be read
RefEntries ==
    {RefEntry(Path("ref", "sub", ""), TRUE, FALSE, FALSE, FALSE, <<>>),
     RefEntry(Path("ref", "a", ".txt"), FALSE, TRUE, TRUE, TRUE, <<0>>),
     RefEntry(Path("ref", "a", ".svg"), FALSE, TRUE, TRUE, TRUE, <<0>>),
     RefEntry(Path("ref", "c", ".svg"), FALSE, TRUE, TRUE, TRUE, <<0>>),
     RefEntry(Path("ref", "d", ".svg"), FALSE, TRUE, TRUE, TRUE, <<>>),
     RefEntry(Path("ref", "e", ".svg"), FALSE, FALSE, FALSE, FALSE, <<0>>),
     RefEntry(Path("ref", "f", ".svg"), FALSE, TRUE, TRUE, FALSE, <<1>>)}

NonEmptySeqs(S, n) == UNION {[1..k -> S] : k \in 1..n}

\* the state checkTiles starts in
Start ==
    /\ pc = "walk"
    /\ idx = 1
    /\ dupIdx = 1
    /\ cand = [aHash |-> <<>>, aBasename |-> Base(Path("", "", "")), aSize |-> 0,
               file |-> 0, hashed |-> FALSE, sized |-> FALSE]
    /\ out = <<>>
    /\ calls = <<>>

Init ==
    /\ variant \in {"xmlquery", "schema"}
    /\ verboseFlag \in BOOLEAN
    /\ spellerOk \in BOOLEAN
    /\ checkTree \in NonEmptySeqs(CheckEntries, MaxCheckEntries)
    /\ dupTree \in NonEmptySeqs(RefEntries, MaxRefEntries)
    /\ Start

Spec == Init /\ [][Next]_vars

(***************************************************************************)
(* One tile through the check suite, for every combination of its fields.  *)
(***************************************************************************)
MaxKeywords == 2

KeywordTexts == {<<>>, WordOk, WordBad, WordBad \o <<" ">> \o WordOk}

SuiteDims == {<<>>, <<"6", "0">>, <<"1", "0", "0", "m", "m">>}

SuiteTspans == {<<>>, <<<<"o", "/", "k">>, WordBad>>}

\* without an svg element there is no width and no height
SuiteDocs ==
    {Doc(TRUE, w, h, k, i, t) : w \in SuiteDims, h \in SuiteDims,
                               k \in SeqsUpTo(KeywordTexts, MaxKeywords),
                               i \in Identifiers, t \in SuiteTspans}
    \cup {Doc(FALSE, <<>>, <<>>, k, i, t) : k \in SeqsUpTo(KeywordTexts, MaxKeywords),
                                           i \in Identifiers, t \in SuiteTspans}

OneTile(doc) == <<Tile(Path("chk", "a", ".svg"), doc, <<0>>)>>

InitSuite ==
    /\ variant \in {"xmlquery", "schema"}
    /\ verboseFlag \in BOOLEAN
    /\ spellerOk \in BOOLEAN
    /\ checkTree \in {OneTile(d) : d \in SuiteDocs}
    /\ dupTree \in {<<RefEntry(Path("ref", "a", ".svg"), FALSE, TRUE, TRUE, TRUE, <<0>>)>>,
                    <<RefEntry(Path("ref", "e", ".svg"), FALSE, FALSE, FALSE, FALSE, <<0>>)>>}
    /\ Start

SpecSuite == InitSuite /\ [][Next]_vars

(***************************************************************************)
(* One tile through the check suite, for every width or height string.     *)
(***************************************************************************)
SizeAlphabet == {"7", "8", "0", ".", "m"}

\* strings at the edges of float64: 10^308, 10^309 - 1 and 10^310 - 1 (the last
\* two overflow), and 80 - 10^-14 and 80 - 10^-15 (the last rounds to 80)
EdgeDims ==
    {<<"1">> \o Repeat("0", Len(Float64Overflow) - 1),
     Repeat("9", Len(Float64Overflow)),
     Repeat("9", Len(Float64Overflow) + 1) \o <<"m", "m">>,
     <<"7", "9", ".">> \o Repeat("9", 14),
     <<"7", "9", ".">> \o Repeat("9", 15)}

SizeDims == SeqsUpTo(SizeAlphabet, MaxSizeLen) \cup EdgeDims \cup {<<"6", "0">>, <<"1", "0", "0">>, <<"8", "0", ".", "5", "m", "m">>}

OtherDims == {<<"6", "0">>}

DimDoc(w, h) == Doc(TRUE, w, h, <<WordOk>>, Identifier(TRUE, <<"t", "1">>), <<>>)

DimTrees(dims) ==
    {OneTile(DimDoc(d, o)) : d \in dims, o \in OtherDims}
    \cup {OneTile(DimDoc(o, d)) : d \in dims, o \in OtherDims}

InitSize ==
    /\ variant \in {"xmlquery", "schema"}
    /\ verboseFlag = FALSE
    /\ spellerOk = TRUE
    /\ checkTree \in DimTrees(SizeDims)
    /\ dupTree = <<RefEntry(Path("ref", "a", ".svg"), FALSE, TRUE, TRUE, TRUE, <<0>>)>>
    /\ Start

SpecSize == InitSize /\ [][Next]_vars

UnitAlphabet == {"i", "n", "m", "p", "t", "c", "f", "8"}

\* upper case, px, and a unit after a space
OddUnits == {<<"8", "M", "M">>, <<"8", "0", "I", "N">>, <<"8", "0", "p", "x">>,
             <<"8", "0", "c", "m", " ">>}

UnitDims == SeqsUpTo(UnitAlphabet, MaxUnitLen) \cup OddUnits

InitUnits ==
    /\ variant \in {"xmlquery", "schema"}
    /\ verboseFlag = FALSE
    /\ spellerOk = TRUE
    /\ checkTree \in DimTrees(UnitDims)
    /\ dupTree = <<RefEntry(Path("ref", "a", ".svg"), FALSE, TRUE, TRUE, TRUE, <<0>>)>>
    /\ Start

SpecUnits == InitUnits /\ [][Next]_vars

(***************************************************************************)
(* One tile against every reference tree: names, contents and I/O errors.  *)
(***************************************************************************)
Contents == {<<>>, <<0>>, <<1>>, <<0, 1>>}

DupTiles ==
    {Tile(Path("chk", stem, ".svg"), GoodDoc, c) : stem \in {"a", "b"}, c \in {<<0>>, <<0, 1>>}}

DupRefEntries ==
    {RefEntry(Path("ref", stem, ".svg"), FALSE, TRUE, TRUE, TRUE, c) :
        stem \in {"a", "c"}, c \in Contents}
    \cup {RefEntry(Path("ref", "a", ext), FALSE, TRUE, TRUE, TRUE, <<0>>) : ext \in {".txt", ".SVG", ""}}
    \cup {RefEntry(Path("ref", "sub", ""), TRUE, FALSE, FALSE, FALSE, <<>>),
          RefEntry(Path("ref", "a", ".svg"), FALSE, FALSE, FALSE, FALSE, <<0>>),
          RefEntry(Path("ref", "a", ".svg"), FALSE, TRUE, TRUE, FALSE, <<0>>)}

InitDup ==
    /\ variant = "xmlquery"
    /\ verboseFlag = FALSE
    /\ spellerOk = TRUE
    /\ checkTree \in {<<t>> : t \in DupTiles}
    /\ dupTree \in NonEmptySeqs(DupRefEntries, MaxRefEntries)
    /\ Start

SpecDup == InitDup /\ [][Next]_vars

(***************************************************************************)
(* What the claims speak of.                                               *)
(***************************************************************************)
Finished == pc \in {"done", "aborted", "panic"}

\* entry i is a .svg file the walk reaches without a traversal error
IsSvg(i) == ~checkTree[i].walkErr /\ Ext(checkTree[i].path) = ".svg"

\* entry i is a .svg file that opens and parses
IsTile(i) == IsSvg(i) /\ checkTree[i].openOk /\ checkTree[i].parseOk

\* the walk function has returned, or the process has ended, for entry i
Past(i) == idx > i \/ (idx = i /\ Finished)

Called(i, fn) == \E k \in DOMAIN calls : calls[k] = Call(i, fn)

CallsOf(i) == SelectSeq(calls, LAMBDA c : c.file = i /\ c.fn # "compare")

Compared(i, j) == \E k \in DOMAIN calls : calls[k] = Compare(i, j)

CountOf(msg, i) == Cardinality({k \in DOMAIN out : out[k].msg = msg /\ out[k].file = i})

Emitted(msg, i) == CountOf(msg, i) > 0

Warned(msg, i, j) ==
    \E k \in DOMAIN out : out[k].msg = msg /\ out[k].file = i /\ out[k].ref = j
                          /\ out[k].sev = "WARNING"

WarnCount(msg, i, j) ==
    Cardinality({k \in DOMAIN out : out[k].msg = msg /\ out[k].file = i /\ out[k].ref = j
                                    /\ out[k].sev = "WARNING"})

AnyWarning(i, j) ==
    \E k \in DOMAIN out : out[k].file = i /\ out[k].ref = j /\ out[k].sev = "WARNING"

Reported(msg) == \E k \in DOMAIN out : out[k].msg = msg /\ out[k].sev = "ERROR"

TileDoc(i) == checkTree[i].doc

\* entry i is a .svg file that cannot be opened or cannot be parsed
FileError(i) == IsSvg(i) /\ ~(checkTree[i].openOk /\ checkTree[i].parseOk)

NoTraversalError == \A k \in DOMAIN checkTree : ~checkTree[k].walkErr

\* C1: a .svg file of the check tree that cannot be opened or parsed is reported,
\* no check and no duplicate detection runs for it, and the walk continues: only a
\* traversal error aborts the walk, and every later tile is checked and
\* duplicate-scanned.
C1_FileErrorsDoNotAbortWalk ==
    /\ \A i \in DOMAIN checkTree :
          FileError(i) /\ Past(i) =>
             /\ Reported("checkTiles unable to open") \/ Reported("parseSvg could not parse")
             /\ CallsOf(i) = <<>>
             /\ \A j \in DOMAIN dupTree : ~Compared(i, j)
    /\ pc = "aborted" => checkTree[idx].walkErr
    /\ \A i \in DOMAIN checkTree, j \in DOMAIN checkTree :
          FileError(i) /\ i < j /\ IsTile(j) /\ NoTraversalError /\ Finished /\ pc # "panic" =>
             /\ Called(j, "checkKeywords")
             /\ variant = "xmlquery" => Called(j, "checkDuplicates")

CheckOrder == <<"checkKeywords", "checkSize", "checkUnits", "checkIdentifier",
                "checkKeywordSpelling", "checkTspanSpelling", "checkDuplicates">>

FnsOf(i) == [k \in DOMAIN CallsOf(i) |-> CallsOf(i)[k].fn]

\* C2: for every tile that was parsed, once the walk function is through with it,
\* the six checks have run in the fixed order and the duplicate detector after
\* them, whatever the tile holds (xmlquery variant, lines 311-317).
C2_AllChecksRunInOrder ==
    \A i \in DOMAIN checkTree :
       variant = "xmlquery" /\ IsTile(i) /\ Past(i) => FnsOf(i) = CheckOrder

\* the reference file j can be stat'ed, opened and read
RefReadable(j) == dupTree[j].statOk /\ dupTree[j].openOk /\ dupTree[j].readOk

RefIsSvg(j) == ~dupTree[j].walkErr /\ Ext(dupTree[j].path) = ".svg"

RefError(j) == dupTree[j].walkErr \/ (RefIsSvg(j) /\ ~RefReadable(j))

\* C4: in the scan of the reference tree for a tile, an entry with a traversal, stat
\* or hashing error gets no match WARNING, and every other .svg file of the
\* reference tree is still compared with the tile.
C4_RefErrorsSkipAndContinue ==
    \A i \in DOMAIN checkTree :
       Called(i, "checkDuplicates") /\ Past(i) =>
          \A j \in DOMAIN dupTree :
             /\ RefError(j) => ~AnyWarning(i, j)
             /\ RefIsSvg(j) /\ ~RefError(j) => Compared(i, j)

\* C8: checkIdentifier emits the identifier-missing ERROR exactly when the tile's
\* identifier is empty, be the dc:identifier element absent or present without text.
C8_IdentifierMissingIffEmpty ==
    \A i \in DOMAIN checkTree :
       Called(i, "checkIdentifier") =>
          CountOf("Identifier missing", i) = (IF TileDoc(i).identifier.text = <<>> THEN 1 ELSE 0)

\* C9: no well-formed .svg file, with or without an svg element, crashes the
\* process in checkSize, checkUnits or printSvg.
C9_NoSvgElementNoCrash == pc # "panic"

\* C10: a hash WARNING for a reference file comes with a size WARNING for the same
\* file and with both digests computed, and a size WARNING comes with both sizes
\* read: a failed makeHash or getFileSize never gives a match WARNING.
C10_MatchOnlyOnComputedValues ==
    \A j \in DOMAIN dupTree :
       /\ Warned("duplicate file hash", cand.file, j) =>
             /\ Warned("duplicate file size", cand.file, j)
             /\ cand.hashed /\ dupTree[j].openOk /\ dupTree[j].readOk
       /\ Warned("duplicate file size", cand.file, j) =>
             cand.sized /\ dupTree[j].statOk

NumericPart(s) == SelectSeq(s, LAMBDA c : c \in Digits \cup {"."})

IntChars(s) == SubSeq(NumericPart(s), 1, DotPos(NumericPart(s)) - 1)

FracChars(s) == SubSeq(NumericPart(s), DotPos(NumericPart(s)) + 1, Len(NumericPart(s)))

\* no number: no digit, or more than one dot
Malformed(s) == DotCount(NumericPart(s)) > 1 \/ Len(NumericPart(s)) = DotCount(NumericPart(s))

\* the integer part, at most 100
IntPartCapped(s) ==
    LET d == IntChars(s)
        n == Len(d)
    IN  IF \E k \in 1..(n - 2) : d[k] # "0" THEN 100
        ELSE (IF n >= 2 THEN 10 * DigitVal(d[n - 1]) ELSE 0) + (IF n >= 1 THEN DigitVal(d[n]) ELSE 0)

\* the number is too large for a float64
TooLarge(s) ==
    LET d == IntChars(s)
        lead == {k \in 1..Len(d) : d[k] # "0"}
        first == IF lead = {} THEN Len(d) + 1 ELSE CHOOSE k \in lead : \A m \in lead : k <= m
        sig == [k \in 1..(Len(d) - first + 1) |-> DigitVal(d[first + k - 1])]
    IN  \/ Len(sig) > Len(Float64Overflow)
        \/ Len(sig) = Len(Float64Overflow) /\ ~DigitsLessFrom(sig, Float64Overflow, 1)

\* the magnitude, as a float64, is below min (80)
MagnitudeBelow(s, min) ==
    \/ IntPartCapped(s) < min - 1
    \/ /\ IntPartCapped(s) = min - 1
       /\ DigitsLessFrom([k \in 1..Len(FracChars(s)) |-> DigitVal(FracChars(s)[k])],
                         HalfUlpBelowMin, 1)

\* the tile's size check has run to its end
SizeChecked(i) == Called(i, "checkSize") /\ ~Panics(variant, TileDoc(i))

Bit(b) == IF b THEN 1 ELSE 0

\* C6 as stated: a size ERROR exactly when the magnitude is below 80, a string that
\* cannot be parsed counting as 0 (conversion error reported, size ERROR emitted).
C6_UnparsableIsZero ==
    \A i \in DOMAIN checkTree :
       SizeChecked(i) =>
          LET w == TileDoc(i).width
              h == TileDoc(i).height
              failed(s) == Malformed(s) \/ TooLarge(s)
          IN  /\ CountOf("Width is too small", i) = Bit(failed(w) \/ MagnitudeBelow(w, minWidth))
              /\ CountOf("Height is too small", i) = Bit(failed(h) \/ MagnitudeBelow(h, minHeight))
              /\ CountOf("toFloat unable to convert", i) = Bit(failed(w)) + Bit(failed(h))

\* C6, amended: a size ERROR exactly when the string holds no well-formed number
\* (it counts as 0) or its magnitude, not too large for a float64, is below 80; a
\* conversion error exactly when it holds no well-formed number or is too large.
C6_SizeErrors ==
    \A i \in DOMAIN checkTree :
       SizeChecked(i) =>
          LET w == TileDoc(i).width
              h == TileDoc(i).height
              small(s, min) == Malformed(s) \/ (~TooLarge(s) /\ MagnitudeBelow(s, min))
          IN  /\ CountOf("Width is too small", i) = Bit(small(w, minWidth))
              /\ CountOf("Height is too small", i) = Bit(small(h, minHeight))
              /\ CountOf("toFloat unable to convert", i)
                    = Bit(Malformed(w) \/ TooLarge(w)) + Bit(Malformed(h) \/ TooLarge(h))

\* width "60" and a height too large for a float64 are through the size check: one
\* width ERROR, the conversion error of the height, and no height ERROR
C6_Witness ==
    \E i \in DOMAIN checkTree :
       /\ SizeChecked(i)
       /\ TileDoc(i).width = <<"6", "0">> /\ TooLarge(TileDoc(i).height)
       /\ CountOf("Width is too small", i) = 1
       /\ CountOf("Height is too small", i) = 0
       /\ CountOf("toFloat unable to convert", i) = 1

(***************************************************************************)
(* The unit of a dimension string, read off its last characters.           *)
(***************************************************************************)
LastChars(s, n) == IF Len(s) >= n THEN SubSeq(s, Len(s) - n + 1, Len(s)) ELSE <<>>

TwoLetterUnits == {<<"i", "n">>, <<"m", "m">>, <<"p", "t">>, <<"p", "c">>, <<"f", "t">>, <<"c", "m">>}

HasUnit(s) == LastChars(s, 2) \in TwoLetterUnits \/ LastChars(s, 1) = <<"m">>

UnitConstant(s) ==
    CASE LastChars(s, 2) = <<"i", "n">> -> pxPerIn
      [] LastChars(s, 2) = <<"m", "m">> -> pxPerMm
      [] LastChars(s, 2) = <<"p", "t">> -> pxPerPt
      [] LastChars(s, 2) = <<"p", "c">> -> pxPerPc
      [] LastChars(s, 2) = <<"f", "t">> -> pxPerFt
      [] LastChars(s, 2) = <<"c", "m">> -> pxPerCm
      [] OTHER -> IF LastChars(s, 1) = <<"m">> THEN pxPerM ELSE One

\* the tile's unit check has run to its end
UnitsChecked(i) == Called(i, "checkUnits") /\ ~Panics(variant, TileDoc(i))

\* C7: getUnitConversion gives the constant of the unit the string ends in (mm and
\* cm before m) and 1.0 for any other ending; checkUnits warns about the width
\* exactly when the width ends in a unit, and about the height likewise, whether or
\* not the size check fires.
C7_UnitWarnings ==
    \A i \in DOMAIN checkTree :
       LET w == TileDoc(i).width
           h == TileDoc(i).height
       IN  /\ getUnitConversion(w) = UnitConstant(w)
           /\ getUnitConversion(h) = UnitConstant(h)
           /\ UnitsChecked(i) =>
                 /\ CountOf("Width units are not px", i) = Bit(HasUnit(w))
                 /\ CountOf("Height units are not px", i) = Bit(HasUnit(h))

\* a width in mm that is also too small is through the unit check: both lines
C7_Witness ==
    \E i \in DOMAIN checkTree :
       /\ UnitsChecked(i)
       /\ LastChars(TileDoc(i).width, 2) = <<"m", "m">>
       /\ getUnitConversion(TileDoc(i).width) = pxPerMm
       /\ CountOf("Width units are not px", i) = 1
       /\ CountOf("Width is too small", i) = 1
       /\ CountOf("Height units are not px", i) = 0

====
